---- MODULE Spec2Model ----
(***************************************************************************)
(* Model of Simulation/green_grid_sim.py (class SimpleGreenGrid) together  *)
(* with the solar and demand models it samples.                            *)
(*                                                                         *)
(* Units.  Energy is counted in whole units of 1e-6 kWh and power in whole *)
(* units of 1e-4 kW, so that p power units over dt minutes are             *)
(* p * dt * 5 / 3 energy units.  On this grid the code's 1e-9 kWh epsilon  *)
(* lies strictly between 0 and 1 unit ("x > 1e-9" is "x > 0"), 0.01 kWh is *)
(* 10000 units and 1e-6 kWh is 1 unit.  The values below are chosen so     *)
(* that every division the model makes is exact.                           *)
(*                                                                         *)
(* Random draws (cloud cover, load spike and noise, the daily failure      *)
(* trial and its duration) are the inputs of a step, chosen with \E.       *)
(* The configuration (module constants read with getattr from Configs)     *)
(* is chosen in Init and never changes.  Free-text descriptions of events, *)
(* the cost columns and total_curtailed_kwh (only printed) are left out.   *)
(***************************************************************************)
EXTENDS Integers, Sequences, FiniteSets

\* ---------------------------------------------------------------- bounds
\* SIMULATION_DURATION, the days a run lasts.
MaxDays == 2

\* --------------------------------------------------- program parameters
\* BATTERY_CAPACITY: 5.0 kWh.
BATTERY_CAP_KWH == 5000000
\* BATTERY_MIN_SOC_FRACTION: 0.05, as a percentage.
BATTERY_MIN_SOC_PCT == 5
\* MAX_INVERTER_OUTPUT: 3 kW.
INVERTER_MAX_KW == 30000
\* config.SOLAR_PEAK: 4 kW (above the inverter rating, so that a clear noon clips).
SOLAR_PEAK == 40000
\* BASE_LOAD: 0.5 kW.
BASE_LOAD == 5000
\* MONTH_LENGTH_DAYS, shortened so that a reset happens inside a short run.
MONTH_LENGTH_DAYS == 1
\* Minutes per day, 24 * 60.
DayMin == 1440

\* The values a configuration is drawn from.
KnownStrategies == {"load_priority", "charge_priority", "produce_priority"}
Strategies == KnownStrategies \cup {"greedy"}
\* ROUND_TRIP_EFFICIENCY as a fraction: 1, 1/4 and 0.
RoundTrips == {[num |-> 1, den |-> 1], [num |-> 1, den |-> 4], [num |-> 0, den |-> 1]}
\* GRID_EXPORT_LIMIT: 0 and 1 kW.
ExportLimits == {0, 10000}
\* TIMESTEP in minutes.
Timesteps == {180, 900}
\* start_soc_frac as a percentage.
StartSocPcts == {0, 50, 100}

\* The values the random draws are taken from.
\* sample_cloud_coverage: 10% (clear) and 80% (overcast) attenuation.
CloudPcts == {10, 80}
\* random.uniform(-0.1, 0.2) kW of noise: 0.2 kW.
LoadNoises == {2000}
\* The occasional spike: none (0), or random.uniform(0.0, PEAK_LOAD) = 2.2996 kW,
\* which leaves a clear noon (3 kW after clipping) a surplus of 0.4 W.
LoadSpikes == {0, 22996}
\* Outage durations int(dur_h * 60) for dur_h clamped to [4, 72] hours.
OutageMinutes == {240, 1440, 4320}

VARIABLES
    cfg,                    \* the configuration, fixed for the run
    now,                    \* env.now, minutes
    steps_done,             \* iterations of run's loop completed
    status,                 \* "running", "done" or "error" (an exception left run)
    error,                  \* the exception that ended the run, or "none"
    battery_soc,
    cloud_today,
    inverter_down_until,
    total_charge_cycles,
    total_discharge_cycles,
    last_was_charging,
    last_was_discharging,
    peak_battery_soc,
    min_battery_soc,
    prev_inverter_ok,
    month_exported_kwh,
    month_index,
    nlog,                   \* len(self.log)
    last,                   \* self.log[-1], or NoRecord while the log is empty
    ev                      \* the event types appended to self.events by the last action

vars == <<cfg, now, steps_done, status, error, battery_soc, cloud_today,
          inverter_down_until, total_charge_cycles, total_discharge_cycles,
          last_was_charging, last_was_discharging, peak_battery_soc,
          min_battery_soc, prev_inverter_ok, month_exported_kwh, month_index,
          nlog, last, ev>>

\* ---------------------------------------------------------------- helpers
Min(a, b) == IF a <= b THEN a ELSE b
Max(a, b) == IF a >= b THEN a ELSE b

\* kW * dt_h: the energy of p power units over dt minutes.
KwhOf(p, dt) == ((p * dt) \div 3) * 5

\* The number GRID_EXPORT_LIMIT read as kWh (the monthly cap): L kW -> L kWh.
QuotaKwh(limit) == limit * 100

\* math.sqrt of a perfect square.
Sqrt(n) == CHOOSE k \in 0..n : k * k = n

\* ETA_CHARGE = ETA_DISCHARGE = sqrt(ROUND_TRIP), as a fraction.
Eta(c) == [num |-> Sqrt(c.round_trip.num), den |-> Sqrt(c.round_trip.den)]

\* x * eta and x / eta (the latter only where eta is not 0).
MulEta(x, eta) == (x * eta.num) \div eta.den
DivEta(x, eta) == (x * eta.den) \div eta.num

\* BATTERY_CAP_KWH * BATTERY_MIN_SOC_FRAC.
FloorKwh == (BATTERY_CAP_KWH \div 100) * BATTERY_MIN_SOC_PCT

\* soc >= BATTERY_CAP_KWH * 0.99
AtLeast99(soc) == soc >= (BATTERY_CAP_KWH \div 100) * 99

\* soc <= BATTERY_CAP_KWH * BATTERY_MIN_SOC_FRAC * 1.01
AtMostLow(soc) == soc * 100 <= FloorKwh * 101

\* round(x, 6) of an energy in kWh: energies are whole multiples of
\* 1e-6 kWh here, which rounding to six decimals leaves as they are.
Round6(x) == x

\* int((t // 60) % 24)
HourOf(t) == (t \div 60) % 24

\* ------------------------------------------------------------ solar model
\* 1000 * max(0.0, math.sin((hour - 6) * math.pi / 12.0)), to the nearest unit.
SinPermille(hour) ==
    CASE hour \in {7, 17} -> 259
      [] hour \in {8, 16} -> 500
      [] hour \in {9, 15} -> 707
      [] hour \in {10, 14} -> 866
      [] hour \in {11, 13} -> 966
      [] hour = 12 -> 1000
      [] OTHER -> 0

\* solar_generation_kw(env_now_min, cloud_coverage, inverter_down)
solar_generation_kw(env_now_min, cloud_pct, inverter_down) ==
    IF inverter_down THEN 0
    ELSE LET ideal == (SOLAR_PEAK * SinPermille(HourOf(env_now_min))) \div 1000
             actual == (ideal * (100 - cloud_pct)) \div 100
         IN  Min(actual, INVERTER_MAX_KW)

\* ----------------------------------------------------------- demand model
\* sample_load_kw(env_now_min), with its two random draws as arguments:
\* spike is 0 when random.random() >= 0.05, noise is random.uniform(-0.1, 0.2).
sample_load_kw(env_now_min, spike, noise) ==
    LET hour == HourOf(env_now_min)
        morning == IF 7 <= hour /\ hour < 9 THEN 6000 ELSE 0
        evening == IF 18 <= hour /\ hour < 21 THEN 8000 ELSE 0
    IN  Max(0, BASE_LOAD + morning + evening + spike + noise)

\* ------------------------------------------------------ reliability model
\* inverter_ok(): self.env.now >= self.inverter_down_until
inverter_ok(t, down_until) == t >= down_until

\* ------------------------------------------------------- dispatch: surplus
\* What _apply_strategy_surplus leaves behind: the exception it raised (or
\* "none"), self.battery_soc, self.month_exported_kwh, the returned triple,
\* and whether it logged SOLAR CURTAILMENT.
SurplusResult(raises, soc, mexp, export, charged, curtailed, logged) ==
    [raises |-> raises, soc |-> soc, mexp |-> mexp, export |-> export,
     charged |-> charged, curtailed |-> curtailed, discharged |-> 0,
     import |-> 0, unmet |-> 0, events |-> IF logged THEN <<"SOLAR CURTAILMENT">> ELSE <<>>]

Raised(exc, soc, mexp) == SurplusResult(exc, soc, mexp, 0, 0, 0, FALSE)

\* remaining_monthly_kwh = max(0.0, monthly_cap - self.month_exported_kwh)
RemainingMonthly(c, mexp) == Max(0, QuotaKwh(c.export_limit) - mexp)

\* can_export_to_grid = remaining_monthly_kwh > 0.0
CanExport(c, mexp) == RemainingMonthly(c, mexp) > 0

\* min(leftover / dt_h, GRID_EXPORT_LIMIT) * dt_h, then min(.., remaining):
\* the export of the charge-first strategies.
ExportOf(c, mexp, leftover) ==
    Min(Min(leftover, KwhOf(c.export_limit, c.dt)), RemainingMonthly(c, mexp))

\* load_priority with line 154 forgotten: what the export leaves of the
\* leftover is not reported as curtailed.
LoadPriorityNoCurtailment(c, soc, mexp, net) ==
    LET space == BATTERY_CAP_KWH - soc
        eta == Eta(c)
    IN  IF eta.num = 0 THEN Raised("ZeroDivisionError", soc, mexp)
        ELSE LET charge_input == Min(net, DivEta(space, eta))
                 stored == MulEta(charge_input, eta)
                 leftover == net - charge_input
                 export == ExportOf(c, mexp, leftover)
             IN  IF leftover > 0
                 THEN IF CanExport(c, mexp)
                      THEN SurplusResult("none", soc + stored, mexp + export,
                                         export, stored, 0, FALSE)
                      ELSE SurplusResult("none", soc + stored, mexp,
                                         0, stored, leftover, leftover > 10000)
                 ELSE SurplusResult("none", soc + stored, mexp, 0, stored, 0, FALSE)

\* The strategy "load_priority": charge first, then export.
LoadPriority(c, soc, mexp, net) ==
    LET space == BATTERY_CAP_KWH - soc
        eta == Eta(c)
    IN  IF eta.num = 0 THEN Raised("ZeroDivisionError", soc, mexp)
        ELSE LET charge_input == Min(net, DivEta(space, eta))
                 stored == MulEta(charge_input, eta)
                 leftover == net - charge_input
                 export == ExportOf(c, mexp, leftover)
             IN  IF leftover > 0
                 THEN IF CanExport(c, mexp)
                      THEN SurplusResult("none", soc + stored, mexp + export,
                                         export, stored, leftover - export, FALSE)
                      ELSE SurplusResult("none", soc + stored, mexp,
                                         0, stored, leftover, leftover > 10000)
                 ELSE SurplusResult("none", soc + stored, mexp, 0, stored, 0, FALSE)

\* charge_priority with the 99% gate of line 171 tested on the SoC the step
\* started with instead of the SoC after charging.
ChargePriorityGateBeforeCharge(c, soc, mexp, net) ==
    LET space == BATTERY_CAP_KWH - soc
        eta == Eta(c)
    IN  IF eta.num = 0 THEN Raised("ZeroDivisionError", soc, mexp)
        ELSE LET charge_input == Min(net, DivEta(space, eta))
                 stored == MulEta(charge_input, eta)
                 leftover == net - charge_input
                 export == ExportOf(c, mexp, leftover)
             IN  IF leftover > 0 /\ AtLeast99(soc)
                 THEN IF CanExport(c, mexp)
                      THEN SurplusResult("none", soc + stored, mexp + export,
                                         export, stored, leftover - export, FALSE)
                      ELSE SurplusResult("none", soc + stored, mexp,
                                         0, stored, leftover, leftover > 10000)
                 ELSE SurplusResult("none", soc + stored, mexp, 0, stored, 0, FALSE)

\* The strategy "charge_priority": as load_priority, but the leftover is
\* handled only once the battery is at 99% or more.
ChargePriority(c, soc, mexp, net) ==
    LET space == BATTERY_CAP_KWH - soc
        eta == Eta(c)
    IN  IF eta.num = 0 THEN Raised("ZeroDivisionError", soc, mexp)
        ELSE LET charge_input == Min(net, DivEta(space, eta))
                 stored == MulEta(charge_input, eta)
                 leftover == net - charge_input
                 export == ExportOf(c, mexp, leftover)
             IN  IF leftover > 0 /\ AtLeast99(soc + stored)
                 THEN IF CanExport(c, mexp)
                      THEN SurplusResult("none", soc + stored, mexp + export,
                                         export, stored, leftover - export, FALSE)
                      ELSE SurplusResult("none", soc + stored, mexp,
                                         0, stored, leftover, leftover > 10000)
                 ELSE SurplusResult("none", soc + stored, mexp, 0, stored, 0, FALSE)

\* produce_priority read as "export everything": the whole surplus goes to
\* the grid, with neither the quota gate nor the rate cap.
ProducePriorityExportAll(c, soc, mexp, net) ==
    SurplusResult("none", soc, mexp + net, net, 0, 0, FALSE)

\* The strategy "produce_priority": export first, then charge.
ProducePriority(c, soc, mexp, net) ==
    LET space == BATTERY_CAP_KWH - soc
        eta == Eta(c)
        max_export == KwhOf(c.export_limit, c.dt)
    IN  IF CanExport(c, mexp)
        THEN IF net > max_export
             THEN IF eta.num = 0 THEN Raised("ZeroDivisionError", soc, mexp)
                  ELSE LET remaining == net - max_export
                           charge_input == Min(remaining, DivEta(space, eta))
                           stored == MulEta(charge_input, eta)
                       IN  SurplusResult("none", soc + stored, mexp + max_export,
                                         max_export, stored, remaining - charge_input, FALSE)
             ELSE SurplusResult("none", soc, mexp + net, net, 0, 0, FALSE)
        ELSE IF eta.num = 0 THEN Raised("ZeroDivisionError", soc, mexp)
             ELSE LET charge_input == Min(net, DivEta(space, eta))
                      stored == MulEta(charge_input, eta)
                      curtailed == net - charge_input
                  IN  SurplusResult("none", soc + stored, mexp, 0, stored,
                                    curtailed, curtailed > 10000)

\* _apply_strategy_surplus(net_kwh, dt_h)
apply_strategy_surplus(c, soc, mexp, net) ==
    CASE c.strategy = "load_priority" -> LoadPriority(c, soc, mexp, net)
      [] c.strategy = "charge_priority" -> ChargePriority(c, soc, mexp, net)
      [] c.strategy = "produce_priority" -> ProducePriority(c, soc, mexp, net)
      [] OTHER -> Raised("ValueError", soc, mexp)

\* ------------------------------------------------------- dispatch: deficit
\* The deficit branch with lines 288-290 forgotten: nothing is imported and
\* the residual need stays unmet.
DeficitNoImport(c, soc, mexp, net) ==
    LET need == -net
        available == Max(0, soc - FloorKwh)
        eta == Eta(c)
        discharge_needed == IF c.round_trip.num > 0
                            THEN Min(DivEta(need, eta), available) ELSE 0
        supplied == IF c.round_trip.num > 0 THEN MulEta(discharge_needed, eta) ELSE 0
        unmet == need - supplied
    IN  [raises |-> "none", soc |-> soc - discharge_needed, mexp |-> mexp,
         export |-> 0, charged |-> 0, curtailed |-> 0,
         discharged |-> discharge_needed, import |-> 0, unmet |-> unmet,
         events |-> IF unmet > 0 THEN <<"UNMET LOAD">> ELSE <<>>]

\* The deficit branch without the "if ROUND_TRIP > 0" of line 273:
\* need_kwh / ETA_DISCHARGE is computed whatever the efficiency.
DeficitAlwaysDivides(c, soc, mexp, net) ==
    LET need == -net
        available == Max(0, soc - FloorKwh)
        eta == Eta(c)
    IN  IF eta.num = 0 THEN Raised("ZeroDivisionError", soc, mexp)
        ELSE LET discharge_needed == Min(DivEta(need, eta), available)
                 supplied == MulEta(discharge_needed, eta)
                 remaining_need == need - supplied
             IN  [raises |-> "none", soc |-> soc - discharge_needed, mexp |-> mexp,
                  export |-> 0, charged |-> 0, curtailed |-> 0,
                  discharged |-> discharge_needed,
                  import |-> Max(remaining_need, 0), unmet |-> 0, events |-> <<>>]

\* The deficit branch with the usable floor of line 270 forgotten: the whole
\* charge of the battery is available.
DeficitIgnoresFloor(c, soc, mexp, net) ==
    LET need == -net
        available == Max(0, soc)
        eta == Eta(c)
        discharge_needed == IF c.round_trip.num > 0
                            THEN Min(DivEta(need, eta), available) ELSE 0
        supplied == IF c.round_trip.num > 0 THEN MulEta(discharge_needed, eta) ELSE 0
        remaining_need == need - supplied
    IN  [raises |-> "none", soc |-> soc - discharge_needed, mexp |-> mexp,
         export |-> 0, charged |-> 0, curtailed |-> 0,
         discharged |-> discharge_needed,
         import |-> Max(remaining_need, 0), unmet |-> 0, events |-> <<>>]

\* The deficit branch with the sign of line 281 reversed: the discharge is
\* added to self.battery_soc instead of taken from it.
DeficitAddsDischarge(c, soc, mexp, net) ==
    LET need == -net
        available == Max(0, soc - FloorKwh)
        eta == Eta(c)
        discharge_needed == IF c.round_trip.num > 0
                            THEN Min(DivEta(need, eta), available) ELSE 0
        supplied == IF c.round_trip.num > 0 THEN MulEta(discharge_needed, eta) ELSE 0
        remaining_need == need - supplied
    IN  [raises |-> "none", soc |-> soc + discharge_needed, mexp |-> mexp,
         export |-> 0, charged |-> 0, curtailed |-> 0,
         discharged |-> discharge_needed,
         import |-> Max(remaining_need, 0), unmet |-> 0, events |-> <<>>]

\* The else branch of step (net_kwh <= 0): discharge down to the usable
\* floor, import the rest.
Deficit(c, soc, mexp, net) ==
    LET need == -net
        available == Max(0, soc - FloorKwh)
        eta == Eta(c)
        discharge_needed == IF c.round_trip.num > 0
                            THEN Min(DivEta(need, eta), available) ELSE 0
        supplied == IF c.round_trip.num > 0 THEN MulEta(discharge_needed, eta) ELSE 0
        remaining_need == need - supplied
        grid_import == IF remaining_need > 0 THEN remaining_need ELSE 0
        unmet == IF remaining_need > 0 THEN 0 ELSE remaining_need - 0
    IN  [raises |-> "none", soc |-> soc - discharge_needed, mexp |-> mexp,
         export |-> 0, charged |-> 0, curtailed |-> 0,
         discharged |-> discharge_needed, import |-> grid_import, unmet |-> unmet,
         events |-> IF unmet > 0 THEN <<"UNMET LOAD">> ELSE <<>>]

\* self.battery_soc = min(max(0.0, self.battery_soc), BATTERY_CAP_KWH)
Clamp(soc) == Min(Max(0, soc), BATTERY_CAP_KWH)

\* A dispatch with no limit at all: the battery takes the whole net energy,
\* whatever its headroom or its charge, and nothing clamps the result.
DispatchUnbounded(c, soc, mexp, net) ==
    [raises |-> "none", soc |-> soc + net, mexp |-> mexp, export |-> 0,
     charged |-> Max(net, 0), curtailed |-> 0, discharged |-> Max(-net, 0),
     import |-> 0, unmet |-> 0, events |-> <<>>]

\* The dispatch of step: the surplus or the deficit branch, then the clamp
\* of self.battery_soc into [0, BATTERY_CAP_KWH].
Dispatch(c, soc, mexp, net) ==
    LET d == IF net > 0
             THEN apply_strategy_surplus(c, soc, mexp, net)
             ELSE Deficit(c, soc, mexp, net)
    IN  [d EXCEPT !.soc = Clamp(d.soc)]

\* ------------------------------------------------------------- bookkeeping
\* _track_battery_cycles without the edge test: a cycle starts in every step
\* whose flag is set.
track_battery_cycles_every_step(is_charging, is_discharging, was_charging, was_discharging, charge_cycles, discharge_cycles) ==
    [charge_cycles |-> IF is_charging THEN charge_cycles + 1 ELSE charge_cycles,
     discharge_cycles |-> IF is_discharging THEN discharge_cycles + 1 ELSE discharge_cycles,
     events |-> (IF is_charging THEN <<"BATTERY CHARGE START">> ELSE <<>>)
                \o (IF is_discharging THEN <<"BATTERY DISCHARGE START">> ELSE <<>>)]

\* _track_battery_cycles(is_charging, is_discharging): the new counters and
\* the events logged.
track_battery_cycles(is_charging, is_discharging, was_charging, was_discharging, charge_cycles, discharge_cycles) ==
    LET c_start == is_charging /\ ~was_charging
        d_start == is_discharging /\ ~was_discharging
    IN  [charge_cycles |-> IF c_start THEN charge_cycles + 1 ELSE charge_cycles,
         discharge_cycles |-> IF d_start THEN discharge_cycles + 1 ELSE discharge_cycles,
         events |-> (IF c_start THEN <<"BATTERY CHARGE START">> ELSE <<>>)
                    \o (IF d_start THEN <<"BATTERY DISCHARGE START">> ELSE <<>>)]

\* BATTERY FULL is logged when the clamped SoC is a new peak at 99% or more.
LogsBatteryFull(soc, peak) == soc > peak /\ AtLeast99(soc)

\* BATTERY LOW is logged when the clamped SoC is a new minimum at or below
\* 1.01 times the usable floor.
LogsBatteryLow(soc, trough) == soc < trough /\ AtMostLow(soc)

\* The WARNING of step: a deficit step that ended with more charge (1e-6 kWh
\* is one unit).
LogsWarning(net, before, after) == net < 0 /\ after > before + 1

\* ------------------------------------------------------------ the run
\* steps = int(total_min // dt_min), with total_min = SIM_TOTAL_DAY * 24 * 60.
TotalMin(c) == c.days * DayMin
Steps(c) == TotalMin(c) \div c.dt

Configs ==
    [strategy : Strategies, round_trip : RoundTrips, export_limit : ExportLimits,
     dt : Timesteps, days : {MaxDays}, start_soc_pct : StartSocPcts]

\* The value of `last` while self.log is empty.
NoRecord ==
    [time_min |-> -1, hour |-> 0, solar_kw |-> 0, load_kw |-> 0,
     energy_gen_kwh |-> 0, energy_load_kwh |-> 0, net_kwh |-> 0,
     battery_soc_kwh |-> 0, battery_charged_kwh |-> 0,
     battery_discharged_kwh |-> 0, grid_import_kwh |-> 0, grid_export_kwh |-> 0,
     curtailed_kwh |-> 0, unmet_load_kwh |-> 0, inverter_ok |-> TRUE,
     cloud |-> 0, strategy |-> "", month_exported_kwh |-> 0]

\* SimpleGreenGrid.__init__ (run_simulation builds the plant and starts run).
Init ==
    /\ cfg \in Configs
    /\ now = 0
    /\ steps_done = 0
    /\ status = "running"
    /\ error = "none"
    /\ battery_soc = (BATTERY_CAP_KWH \div 100) * cfg.start_soc_pct
    /\ cloud_today \in CloudPcts
    /\ inverter_down_until = -1
    /\ total_charge_cycles = 0
    /\ total_discharge_cycles = 0
    /\ last_was_charging = FALSE
    /\ last_was_discharging = FALSE
    /\ peak_battery_soc = (BATTERY_CAP_KWH \div 100) * cfg.start_soc_pct
    /\ min_battery_soc = (BATTERY_CAP_KWH \div 100) * cfg.start_soc_pct
    /\ prev_inverter_ok = TRUE
    /\ month_exported_kwh = 0
    /\ month_index = 0
    /\ nlog = 0
    /\ last = NoRecord
    /\ ev = <<"SIMULATION START">>

\* The part of step before the energy balance: the daily update at midnight
\* (new cloud cover, the failure trial, the month reset) and the recovery
\* event.  cloud, fail and dur are the random draws.
DailyUpdate(t, cloud, fail, dur) ==
    LET was_ok == prev_inverter_ok
        now_ok == inverter_ok(t, inverter_down_until)
        midnight == t % DayMin = 0
        failed == midnight /\ fail
        day_index == t \div DayMin
        reset == midnight /\ day_index > 0 /\ day_index % MONTH_LENGTH_DAYS = 0
    IN  [now_ok |-> now_ok,
         cloud_today |-> IF midnight THEN cloud ELSE cloud_today,
         inverter_down_until |-> IF failed THEN t + dur ELSE inverter_down_until,
         month_exported_kwh |-> IF reset THEN 0 ELSE month_exported_kwh,
         month_index |-> IF reset THEN month_index + 1 ELSE month_index,
         events |-> (IF midnight THEN <<"DAILY UPDATE">> ELSE <<>>)
                    \o (IF failed THEN <<"INVERTER FAILURE">> ELSE <<>>)
                    \o (IF reset THEN <<"MONTH RESET">> ELSE <<>>)
                    \o (IF ~was_ok /\ now_ok THEN <<"INVERTER RECOVERY">> ELSE <<>>)]

\* The energy balance with the availability of the inverter left out of the
\* measurement (lines 247 and 250): the panels feed the plant during an
\* outage as well.
BalanceIgnoresOutage(c, t, u, spike, noise) ==
    LET ok == inverter_ok(t, u.inverter_down_until)
        solar_kw == solar_generation_kw(t, u.cloud_today, FALSE)
        load_kw == sample_load_kw(t, spike, noise)
        usable_solar_kw == Min(solar_kw, INVERTER_MAX_KW)
        energy_gen_kwh == KwhOf(usable_solar_kw, c.dt)
        energy_load_kwh == KwhOf(load_kw, c.dt)
        net_kwh == energy_gen_kwh - energy_load_kwh
        d == Dispatch(c, battery_soc, u.month_exported_kwh, net_kwh)
    IN  [inverter_ok |-> ok, solar_kw |-> solar_kw, load_kw |-> load_kw,
         energy_gen_kwh |-> energy_gen_kwh, energy_load_kwh |-> energy_load_kwh,
         net_kwh |-> net_kwh, d |-> d]

\* The energy balance of step: measure, then dispatch.  u is the result of DailyUpdate; spike and noise are the
\* draws of sample_load_kw.
Balance(c, t, u, spike, noise) ==
    LET ok == inverter_ok(t, u.inverter_down_until)
        solar_kw == solar_generation_kw(t, u.cloud_today, ~ok)
        load_kw == sample_load_kw(t, spike, noise)
        usable_solar_kw == IF ok THEN Min(solar_kw, INVERTER_MAX_KW) ELSE 0
        energy_gen_kwh == KwhOf(usable_solar_kw, c.dt)
        energy_load_kwh == KwhOf(load_kw, c.dt)
        net_kwh == energy_gen_kwh - energy_load_kwh
        d == Dispatch(c, battery_soc, u.month_exported_kwh, net_kwh)
    IN  [inverter_ok |-> ok, solar_kw |-> solar_kw, load_kw |-> load_kw,
         energy_gen_kwh |-> energy_gen_kwh, energy_load_kwh |-> energy_load_kwh,
         net_kwh |-> net_kwh, d |-> d]

\* The draws a step makes at time t: cloud cover and the failure trial only
\* at midnight, a duration only when the trial fails.
CloudDraws(t) == IF t % DayMin = 0 THEN CloudPcts ELSE {cloud_today}
FailDraws(t) == IF t % DayMin = 0 THEN BOOLEAN ELSE {FALSE}
DurDraws(fail) == IF fail THEN OutageMinutes ELSE {0}

\* One iteration of run: step(dt_min) returns, then env.timeout(dt_min).
Step ==
    /\ status = "running"
    /\ steps_done < Steps(cfg)
    /\ \E cloud \in CloudDraws(now), fail \in FailDraws(now),
          spike \in LoadSpikes, noise \in LoadNoises :
        \E dur \in DurDraws(fail) :
         \E u \in {DailyUpdate(now, cloud, fail, dur)} :
         \E b \in {Balance(cfg, now, u, spike, noise)} :
          LET d == b.d
              soc == d.soc
              full == LogsBatteryFull(soc, peak_battery_soc)
              low == LogsBatteryLow(soc, min_battery_soc)
              is_charging == d.charged > 0
              is_discharging == d.discharged > 0
              k == track_battery_cycles(is_charging, is_discharging,
                                        last_was_charging, last_was_discharging,
                                        total_charge_cycles, total_discharge_cycles)
          IN  /\ d.raises = "none"
              /\ battery_soc' = soc
              /\ peak_battery_soc' = Max(peak_battery_soc, soc)
              /\ min_battery_soc' = Min(min_battery_soc, soc)
              /\ cloud_today' = u.cloud_today
              /\ inverter_down_until' = u.inverter_down_until
              /\ month_exported_kwh' = d.mexp
              /\ month_index' = u.month_index
              /\ total_charge_cycles' = k.charge_cycles
              /\ total_discharge_cycles' = k.discharge_cycles
              /\ last_was_charging' = is_charging
              /\ last_was_discharging' = is_discharging
              /\ prev_inverter_ok' = u.now_ok
              /\ ev' = u.events \o d.events
                        \o (IF full THEN <<"BATTERY FULL">> ELSE <<>>)
                        \o (IF low THEN <<"BATTERY LOW">> ELSE <<>>)
                        \o k.events
                        \o (IF LogsWarning(b.net_kwh, battery_soc, soc)
                            THEN <<"WARNING">> ELSE <<>>)
              /\ nlog' = nlog + 1
              /\ last' = [time_min |-> now, hour |-> HourOf(now),
                          solar_kw |-> b.solar_kw, load_kw |-> b.load_kw,
                          energy_gen_kwh |-> Round6(b.energy_gen_kwh),
                          energy_load_kwh |-> Round6(b.energy_load_kwh),
                          net_kwh |-> Round6(b.net_kwh),
                          battery_soc_kwh |-> Round6(soc),
                          battery_charged_kwh |-> Round6(d.charged),
                          battery_discharged_kwh |-> Round6(d.discharged),
                          grid_import_kwh |-> Round6(d.import),
                          grid_export_kwh |-> Round6(d.export),
                          curtailed_kwh |-> Round6(d.curtailed),
                          unmet_load_kwh |-> Round6(d.unmet),
                          inverter_ok |-> b.inverter_ok,
                          cloud |-> u.cloud_today,
                          strategy |-> cfg.strategy,
                          month_exported_kwh |-> Round6(d.mexp)]
              /\ now' = now + cfg.dt
              /\ steps_done' = steps_done + 1
              /\ UNCHANGED <<cfg, status, error>>

\* An iteration of run in which step raises: the exception leaves
\* _apply_strategy_surplus before it changed anything, so only the daily
\* update has taken effect; nothing is appended to the log and run ends.
StepRaises ==
    /\ status = "running"
    /\ steps_done < Steps(cfg)
    /\ \E cloud \in CloudDraws(now), fail \in FailDraws(now),
          spike \in LoadSpikes, noise \in LoadNoises :
        \E dur \in DurDraws(fail) :
         \E u \in {DailyUpdate(now, cloud, fail, dur)} :
         \E b \in {Balance(cfg, now, u, spike, noise)} :
              /\ b.d.raises # "none"
              /\ status' = "error"
              /\ error' = b.d.raises
              /\ cloud_today' = u.cloud_today
              /\ inverter_down_until' = u.inverter_down_until
              /\ month_exported_kwh' = u.month_exported_kwh
              /\ month_index' = u.month_index
              /\ ev' = u.events
              /\ UNCHANGED <<cfg, now, steps_done, battery_soc,
                             total_charge_cycles, total_discharge_cycles,
                             last_was_charging, last_was_discharging,
                             peak_battery_soc, min_battery_soc,
                             prev_inverter_ok, nlog, last>>

\* The end of run: the loop is over and SIMULATION END is logged.
End ==
    /\ status = "running"
    /\ steps_done = Steps(cfg)
    /\ status' = "done"
    /\ ev' = <<"SIMULATION END">>
    /\ UNCHANGED <<cfg, now, steps_done, error, battery_soc, cloud_today,
                   inverter_down_until, total_charge_cycles,
                   total_discharge_cycles, last_was_charging,
                   last_was_discharging, peak_battery_soc, min_battery_soc,
                   prev_inverter_ok, month_exported_kwh, month_index, nlog, last>>

Next == Step \/ StepRaises \/ End

Spec == Init /\ [][Next]_vars

\* ------------------------------------------------------------ type check
InSeq(e, s) == \E i \in 1..Len(s) : s[i] = e

TypeOK ==
    /\ cfg \in Configs
    /\ status \in {"running", "done", "error"}
    /\ error \in {"none", "ValueError", "ZeroDivisionError"}
    /\ now = steps_done * cfg.dt
    /\ nlog = steps_done

\* ================================================================ claims
Abs(x) == IF x < 0 THEN -x ELSE x
Stepped == nlog > 0
RoundTripIsOne == cfg.round_trip = [num |-> 1, den |-> 1]

\* C1: whatever the strategy and the inputs, the battery's state of charge
\* stays within 0 and the capacity (the start fraction being within [0, 1]),
\* and so does the SoC every record reports.
C1_SocWithinCapacity ==
    /\ 0 <= battery_soc /\ battery_soc <= BATTERY_CAP_KWH
    /\ Stepped => 0 <= last.battery_soc_kwh /\ last.battery_soc_kwh <= BATTERY_CAP_KWH

\* C1's case: a step has dispatched a surplus larger than the whole battery.
C1_Witness ==
    Stepped /\ last.net_kwh > BATTERY_CAP_KWH /\ battery_soc = BATTERY_CAP_KWH

\* C2: under each of the three strategies the energy exported since the last
\* month reset never exceeds the monthly quota by more than 1e-6 kWh.
C2_ExportWithinQuota ==
    cfg.strategy \in KnownStrategies =>
        month_exported_kwh <= QuotaKwh(cfg.export_limit) + 1

\* C3 as stated: with a round-trip efficiency of 1, every step has
\* net = charged - discharged + import - export - curtailed, within 1e-6 kWh.
C3_BalanceAsStated ==
    (Stepped /\ RoundTripIsOne) =>
        Abs(last.net_kwh - (last.battery_charged_kwh - last.battery_discharged_kwh
                            + last.grid_import_kwh - last.grid_export_kwh
                            - last.curtailed_kwh)) <= 1

\* C3 amended: with a round-trip efficiency of 1, every step has
\* net = charged + export + curtailed - discharged - import, within 1e-6 kWh
\* (a surplus is stored, exported or curtailed; a deficit is discharged or
\* imported).
C3_EnergyBalance ==
    (Stepped /\ RoundTripIsOne) =>
        Abs(last.net_kwh - (last.battery_charged_kwh + last.grid_export_kwh
                            + last.curtailed_kwh - last.battery_discharged_kwh
                            - last.grid_import_kwh)) <= 1

\* C3's case: a lossless surplus step that charged, exported and curtailed.
C3_Witness ==
    /\ Stepped /\ RoundTripIsOne
    /\ last.battery_charged_kwh > 0
    /\ last.grid_export_kwh > 0
    /\ last.curtailed_kwh > 0

\* A transition that appended a timestep record, i.e. a completed step.
StepTaken == nlog' = nlog + 1

\* C4: the cycle counters never decrease; in a step each grows by exactly 1
\* if its flow (charged, resp. discharged energy) is positive in this step
\* and was not in the previous one, and by 0 otherwise; the CHARGE START /
\* DISCHARGE START event is logged in exactly those steps.
C4_CycleCounters ==
    [][/\ total_charge_cycles' >= total_charge_cycles
       /\ total_discharge_cycles' >= total_discharge_cycles
       /\ StepTaken =>
            LET c_edge == /\ last'.battery_charged_kwh > 0
                          /\ ~(Stepped /\ last.battery_charged_kwh > 0)
                d_edge == /\ last'.battery_discharged_kwh > 0
                          /\ ~(Stepped /\ last.battery_discharged_kwh > 0)
            IN  /\ total_charge_cycles' =
                       total_charge_cycles + (IF c_edge THEN 1 ELSE 0)
                /\ total_discharge_cycles' =
                       total_discharge_cycles + (IF d_edge THEN 1 ELSE 0)
                /\ InSeq("BATTERY CHARGE START", ev') <=> c_edge
                /\ InSeq("BATTERY DISCHARGE START", ev') <=> d_edge
       /\ ~StepTaken =>
            /\ total_charge_cycles' = total_charge_cycles
            /\ total_discharge_cycles' = total_discharge_cycles
            /\ ~InSeq("BATTERY CHARGE START", ev')
            /\ ~InSeq("BATTERY DISCHARGE START", ev')]_vars

\* C4's case: a run that has started two charge cycles and two discharge
\* cycles, the last step continuing a charge already under way.
C4_Witness ==
    /\ total_charge_cycles = 2
    /\ total_discharge_cycles = 2
    /\ last_was_charging
    /\ ~InSeq("BATTERY CHARGE START", ev)

\* C5: a run configured with an unknown strategy never appends a timestep
\* record.
C5_UnknownStrategyNeverSteps ==
    cfg.strategy \notin KnownStrategies => nlog = 0

\* C6: no step halts the run; record k is stamped k * dt; and a finished run
\* has made floor(total / dt) steps, one record each, SIMULATION END being
\* its last event.
C6_RunCompletes ==
    /\ status # "error"
    /\ nlog = steps_done
    /\ Stepped => last.time_min = (nlog - 1) * cfg.dt
    /\ status = "done" =>
         /\ nlog = TotalMin(cfg) \div cfg.dt
         /\ ev = <<"SIMULATION END">>

\* C7: a step logs INVERTER RECOVERY exactly when the inverter was
\* unavailable during the previous step and is available during this one.
C7_RecoveryOnRisingEdge ==
    [][StepTaken =>
         (InSeq("INVERTER RECOVERY", ev')
            <=> (Stepped /\ ~last.inverter_ok /\ last'.inverter_ok))]_vars

\* C8: UNMET LOAD is never logged, every record reports no unmet load, and
\* in a deficit step the grid imports all of the need the battery did not
\* supply (the discharge times the discharge efficiency).
C8_NoUnmetLoad ==
    /\ ~InSeq("UNMET LOAD", ev)
    /\ Stepped =>
         /\ last.unmet_load_kwh = 0
         /\ last.net_kwh <= 0 =>
              last.grid_import_kwh =
                  -last.net_kwh - MulEta(last.battery_discharged_kwh, Eta(cfg))

\* C8's case: a deficit step the battery covered in part, the grid the rest.
C8_Witness ==
    /\ Stepped
    /\ last.net_kwh < 0
    /\ last.battery_discharged_kwh > 0
    /\ last.grid_import_kwh > 0

\* C9: a step logs BATTERY FULL exactly when it takes the SoC from below 99%
\* of the capacity to 99% or more, and BATTERY LOW exactly when it takes the
\* SoC from above 1.01 times the usable floor to that level or below.
C9_ThresholdEvents ==
    [][StepTaken =>
         /\ InSeq("BATTERY FULL", ev')
              <=> (~AtLeast99(battery_soc) /\ AtLeast99(battery_soc'))
         /\ InSeq("BATTERY LOW", ev')
              <=> (~AtMostLow(battery_soc) /\ AtMostLow(battery_soc'))]_vars

\* C10: with an export rate limit of 0, produce_priority never exports: no
\* record reports an export and the month's exported energy stays 0.
C10_NoExportAtZeroLimit ==
    (cfg.strategy = "produce_priority" /\ cfg.export_limit = 0) =>
        /\ month_exported_kwh = 0
        /\ Stepped => last.grid_export_kwh = 0 /\ last.month_exported_kwh = 0

\* C10's case: produce_priority with a limit of 0 met a surplus larger than
\* the battery could take.
C10_Witness ==
    /\ cfg.strategy = "produce_priority" /\ cfg.export_limit = 0
    /\ Stepped
    /\ last.net_kwh > 0
    /\ last.curtailed_kwh > 0

\* The simulated calendar day minute t falls in.
DayOf(t) == t \div DayMin

\* How many times event e is in the sequence s.
CountOf(e, s) == Cardinality({i \in 1..Len(s) : s[i] = e})

\* The step about to run (at time now) is the first one whose time falls in
\* its day: no step ran before it, or the previous one ran on another day.
FirstStepOfDay == nlog = 0 \/ DayOf(last.time_min) # DayOf(now)

\* C12: whatever the timestep, a step logs DAILY UPDATE (the resampling of
\* the weather and the failure trial) exactly once if it is the first step
\* whose time falls in its calendar day, and not at all otherwise.
C12_DailyUpdateAtFirstStepOfDay ==
    [][StepTaken =>
         CountOf("DAILY UPDATE", ev') = (IF FirstStepOfDay THEN 1 ELSE 0)]_vars

\* The step about to run is the first one of a day whose index is a positive
\* multiple of the month length: the month changes with it.
MonthResetDue ==
    FirstStepOfDay /\ DayOf(now) > 0 /\ DayOf(now) % MONTH_LENGTH_DAYS = 0

\* C13: a step resets the month's exported energy to 0 before its dispatch,
\* increments month_index and logs exactly one MONTH RESET when it is the
\* first step of a day whose index is a positive multiple of the month
\* length, and only then; otherwise the month's exported energy grows by
\* exactly the step's export (so it never decreases between resets).
C13_MonthReset ==
    [][StepTaken =>
         LET base == IF MonthResetDue THEN 0 ELSE month_exported_kwh
         IN  /\ CountOf("MONTH RESET", ev') = (IF MonthResetDue THEN 1 ELSE 0)
             /\ month_index' = month_index + (IF MonthResetDue THEN 1 ELSE 0)
             /\ month_exported_kwh' = base + last'.grid_export_kwh
             /\ last'.month_exported_kwh = month_exported_kwh']_vars

\* The step just taken was a surplus step whose surplus exceeded what the
\* headroom the battery had could absorb (headroom / charge efficiency).
SurplusExceededHeadroom ==
    /\ StepTaken
    /\ last'.net_kwh > 0
    /\ last'.net_kwh > DivEta(BATTERY_CAP_KWH - battery_soc, Eta(cfg))

\* C14 as stated: under charge_priority with an export quota of 0, a surplus
\* step whose surplus exceeds what the headroom can absorb reports a positive
\* curtailment and logs SOLAR CURTAILMENT.
C14_CurtailmentAsStated ==
    [][(cfg.strategy = "charge_priority" /\ cfg.export_limit = 0
        /\ SurplusExceededHeadroom) =>
           /\ last'.curtailed_kwh > 0
           /\ InSeq("SOLAR CURTAILMENT", ev')]_vars

\* C14 amended: under charge_priority with an export quota of 0, a surplus
\* step whose surplus exceeds what the headroom can absorb reports a positive
\* curtailment, and logs SOLAR CURTAILMENT exactly when the curtailment
\* exceeds 0.01 kWh.
C14_CurtailmentLoggedAboveThreshold ==
    [][(cfg.strategy = "charge_priority" /\ cfg.export_limit = 0
        /\ SurplusExceededHeadroom) =>
           /\ last'.curtailed_kwh > 0
           /\ InSeq("SOLAR CURTAILMENT", ev') <=> last'.curtailed_kwh > 10000]_vars

\* C14's case: charge_priority with a quota of 0 filled the battery in a
\* step and curtailed the rest of the surplus, logging it.
C14_Witness ==
    /\ cfg.strategy = "charge_priority" /\ cfg.export_limit = 0
    /\ Stepped
    /\ last.battery_charged_kwh > 0
    /\ last.curtailed_kwh > 10000
    /\ battery_soc = BATTERY_CAP_KWH
    /\ InSeq("SOLAR CURTAILMENT", ev)

\* Whatever the draws, the step about to run raises nothing if it is a
\* deficit step.
DeficitStepNeverRaises ==
    (status = "running" /\ steps_done < Steps(cfg)) =>
        \A cloud \in CloudDraws(now), fail \in FailDraws(now),
           spike \in LoadSpikes, noise \in LoadNoises :
            \A dur \in DurDraws(fail) :
                LET u == DailyUpdate(now, cloud, fail, dur)
                    b == Balance(cfg, now, u, spike, noise)
                IN  b.net_kwh <= 0 => b.d.raises = "none"

\* C15: with a round-trip efficiency of 0, a deficit step raises nothing,
\* discharges nothing (so the battery supplies nothing), leaves the SoC as it
\* was, and imports the whole need from the grid.
C15_ZeroEfficiencyDeficit ==
    [][cfg.round_trip.num = 0 =>
         /\ DeficitStepNeverRaises
         /\ (StepTaken /\ last'.net_kwh <= 0) =>
              /\ last'.battery_discharged_kwh = 0
              /\ battery_soc' = battery_soc
              /\ last'.battery_soc_kwh = battery_soc
              /\ last'.grid_import_kwh = -last'.net_kwh
              /\ last'.unmet_load_kwh = 0]_vars

\* C15's case: with an efficiency of 0, a deficit step left a battery that
\* held energy above its floor untouched and imported the whole need.
C15_Witness ==
    /\ cfg.round_trip.num = 0
    /\ Stepped
    /\ last.net_kwh < 0
    /\ battery_soc > FloorKwh
    /\ last.battery_discharged_kwh = 0
    /\ last.grid_import_kwh = -last.net_kwh

\* C16: under load_priority, every surplus step that curtails more than
\* 0.01 kWh logs SOLAR CURTAILMENT in that step, also when part of the
\* leftover was exported and the rate limit or the quota cut the rest.
C16_LoadPriorityCurtailmentLogged ==
    [][(StepTaken /\ cfg.strategy = "load_priority"
        /\ last'.net_kwh > 0 /\ last'.curtailed_kwh > 10000) =>
           InSeq("SOLAR CURTAILMENT", ev')]_vars

\* C17: under load_priority a surplus step charges first and exports only
\* the remainder: charge_input = min(net, headroom / charge efficiency), the
\* SoC rises by charge_input * charge efficiency, the export is
\* min(net - charge_input, rate limit * dt, remaining quota) if quota remains
\* and 0 otherwise, the curtailment is net - charge_input - export; so a step
\* exports or curtails only if it leaves the battery full.
C17_LoadPriorityChargesFirst ==
    [][(StepTaken /\ cfg.strategy = "load_priority" /\ last'.net_kwh > 0) =>
         LET net == last'.net_kwh
             eta == Eta(cfg)
             headroom == BATTERY_CAP_KWH - battery_soc
             charge_input == Min(net, DivEta(headroom, eta))
             exported_before == IF InSeq("MONTH RESET", ev')
                                THEN 0 ELSE month_exported_kwh
             remaining_quota == Max(0, QuotaKwh(cfg.export_limit) - exported_before)
             export == IF remaining_quota > 0
                       THEN Min(Min(net - charge_input,
                                    KwhOf(cfg.export_limit, cfg.dt)),
                                remaining_quota)
                       ELSE 0
         IN  /\ battery_soc' = battery_soc + MulEta(charge_input, eta)
             /\ last'.battery_charged_kwh = MulEta(charge_input, eta)
             /\ last'.grid_export_kwh = export
             /\ last'.curtailed_kwh = net - charge_input - export
             /\ (last'.grid_export_kwh > 0 \/ last'.curtailed_kwh > 0) =>
                    battery_soc' = BATTERY_CAP_KWH]_vars

\* C17's case: with a charge efficiency of 1/2, a load_priority step filled
\* the battery, exported up to a limit and curtailed the rest.
C17_Witness ==
    /\ cfg.strategy = "load_priority" /\ ~RoundTripIsOne
    /\ Stepped
    /\ last.net_kwh > 0
    /\ last.battery_charged_kwh > 0
    /\ last.grid_export_kwh > 0
    /\ last.curtailed_kwh > 0
    /\ battery_soc = BATTERY_CAP_KWH

\* The SoC the run started with, from the record of its configuration.
StartSoc == (BATTERY_CAP_KWH \div 100) * cfg.start_soc_pct

\* C18: a discharge never takes the battery below its usable floor.  In a
\* deficit step (discharge efficiency above 0, so that the quotient exists)
\* the discharge is min(need / discharge efficiency, max(0, SoC - floor)),
\* and nothing is imported when the energy above the floor covers
\* need / discharge efficiency; a run that starts at or above the floor is at
\* or above it after every step, whatever the efficiency.
C18_DischargeStopsAtFloor ==
    [][/\ StartSoc >= FloorKwh => battery_soc' >= FloorKwh
       /\ (StepTaken /\ last'.net_kwh <= 0 /\ cfg.round_trip.num > 0) =>
            LET required == DivEta(-last'.net_kwh, Eta(cfg))
                available == Max(0, battery_soc - FloorKwh)
            IN  /\ last'.battery_discharged_kwh = Min(required, available)
                /\ battery_soc' = battery_soc - last'.battery_discharged_kwh
                /\ available >= required => last'.grid_import_kwh = 0]_vars

\* C18's case: a deficit larger than the energy above the floor took the
\* battery down to the floor exactly, the grid covering the rest.
C18_Witness ==
    /\ cfg.round_trip.num > 0
    /\ StartSoc >= FloorKwh
    /\ Stepped
    /\ last.net_kwh < 0
    /\ last.battery_discharged_kwh > 0
    /\ last.grid_import_kwh > 0
    /\ battery_soc = FloorKwh

\* C19: a step during which the inverter is unavailable has no solar output
\* and generates no energy, so it is a deficit step: it charges, exports and
\* curtails nothing, the SoC does not increase, and the dispatch leaves the
\* month's exported energy as the daily update left it.
C19_NoGenerationDuringOutage ==
    [][(StepTaken /\ ~last'.inverter_ok) =>
         /\ last'.solar_kw = 0
         /\ last'.energy_gen_kwh = 0
         /\ last'.net_kwh <= 0
         /\ last'.battery_charged_kwh = 0
         /\ last'.grid_export_kwh = 0
         /\ last'.curtailed_kwh = 0
         /\ battery_soc' <= battery_soc
         /\ month_exported_kwh' =
                (IF InSeq("MONTH RESET", ev') THEN 0 ELSE month_exported_kwh)]_vars

\* C19's case: a step at noon under a clear sky during an outage; the grid
\* covered the load.
C19_Witness ==
    /\ Stepped
    /\ ~last.inverter_ok
    /\ last.hour = 12
    /\ last.cloud = 10
    /\ last.grid_import_kwh > 0

\* C20: under charge_priority, a surplus step that has energy left over after
\* charging leaves the battery at full capacity, so the 99% gate on the
\* leftover is passed; every surplus step has
\* net = charge_input + export + curtailed, with
\* charge_input = min(net, headroom / charge efficiency).
C20_ChargePriorityAccountsForSurplus ==
    [][(StepTaken /\ cfg.strategy = "charge_priority" /\ last'.net_kwh > 0) =>
         LET net == last'.net_kwh
             eta == Eta(cfg)
             charge_input == Min(net, DivEta(BATTERY_CAP_KWH - battery_soc, eta))
         IN  /\ last'.battery_charged_kwh = MulEta(charge_input, eta)
             /\ net - charge_input > 0 =>
                    /\ battery_soc' = BATTERY_CAP_KWH
                    /\ AtLeast99(battery_soc')
             /\ net = charge_input + last'.grid_export_kwh
                                   + last'.curtailed_kwh]_vars

\* C20's case: with a charge efficiency of 1/2, a charge_priority step
\* filled a battery that was below 99%, exported and curtailed the rest.
C20_Witness ==
    /\ cfg.strategy = "charge_priority" /\ ~RoundTripIsOne
    /\ Stepped
    /\ last.net_kwh > 0
    /\ last.battery_charged_kwh > BATTERY_CAP_KWH \div 100
    /\ last.grid_export_kwh > 0
    /\ last.curtailed_kwh > 0

\* C21: WARNING is never logged: whatever the start fraction in [0, 1], the
\* strategy and the draws, no step with a negative net energy ends with a
\* SoC above the one it started with.
C21_NoChargeInDeficit ==
    [][/\ ~InSeq("WARNING", ev')
       /\ (StepTaken /\ last'.net_kwh < 0) =>
            /\ battery_soc' <= battery_soc
            /\ last'.battery_soc_kwh <= battery_soc
            /\ last'.battery_charged_kwh = 0]_vars

\* C21's case: a deficit step of a run that started with an empty battery
\* (below the usable floor), after a surplus step had charged it above the
\* floor: the battery discharged and the SoC went down.
C21_Witness ==
    /\ cfg.start_soc_pct = 0
    /\ Stepped
    /\ last.net_kwh < 0
    /\ last.battery_discharged_kwh > 0
    /\ battery_soc < peak_battery_soc
    /\ ~InSeq("WARNING", ev)

\* C22: an announced outage is never shortened.  A failure sets
\* inverter_down_until between 4 and 72 hours after the time of the failure;
\* inverter_down_until never decreases, a failure trial during the outage
\* included; and the inverter is unavailable in every step that runs before
\* the inverter_down_until it found.
C22_OutageNeverShortened ==
    [][/\ inverter_down_until' >= inverter_down_until
       /\ InSeq("INVERTER FAILURE", ev') =>
              /\ inverter_down_until' >= now + 4 * 60
              /\ inverter_down_until' <= now + 72 * 60
       /\ (StepTaken /\ now < inverter_down_until) => ~last'.inverter_ok]_vars

====
